---- MODULE Spec2Model ----
(***************************************************************************)
(* Model of healthcheck/__init__.py: the HealthCheck aggregator            *)
(* (check / run_check / add_check), its per-name result cache with TTLs,   *)
(* the optional external cache provider (cache_handler), the exception     *)
(* handler, the response handlers and header sets, and EnvironmentDump     *)
(* (add_section / safe_dump).  Time is the value time.time() returns,      *)
(* abstracted to a non-decreasing integer clock.                           *)
(***************************************************************************)
EXTENDS Integers, Sequences, FiniteSets, TLC

\* ---------------------------------------------------------------- bounds
MaxTime == 2
MaxTTL == 2
MaxCheckers == 2
MaxKeys == 2

\* ------------------------------------------------- values the model draws
Names == {"a", "b"}
Kinds == {"pass", "fail", "raise", "exit"}
None == "None"
\* a TTL argument is None (<<>>) or a number (<<t>>)
TTLArgs == {<<>>} \cup {<<t>> : t \in (-1)..MaxTTL}
ExceptionHandlers == {"basic_exception_handler", "custom"}
CacheHandlers == {None, "shared", "snapshot"}
\* success_handler and failed_handler: the built-in JSON handler or None
SuccessHandlers == {"json_success_handler", None}
FailedHandlers == {"json_failed_handler", None}

VARIABLES
    cfg,        \* the constructor's arguments as stored on self
    checkers,   \* self.checkers: sequence of [name, kind]
    cache,      \* self.cache: checker name -> result
    store,      \* the mapping the external cache provider holds
    now,        \* what time.time() returns
    pc,         \* position of the request inside check()
    idx,        \* loop position in "for checker in self.checkers" (1-based)
    results,    \* the local list "results" of check()
    response,   \* what check() returned last
    ran,        \* history: loop positions whose checker this call invoked
    lastRun,    \* history: name -> position of the checker run last under it
    peer,       \* a second request inside check() on the same HealthCheck object
    twin,       \* a second HealthCheck object, built with cache_handler=None
    functions,  \* EnvironmentDump: self.functions, section name -> function
    raised,     \* EnvironmentDump: the exception the last call raised, or None
    dictionary, \* EnvironmentDump: the argument of the last safe_dump call
    dumped      \* EnvironmentDump: what the last safe_dump call returned

\* the variables of the HealthCheck object and of the request it serves
core == <<cfg, checkers, cache, store, now, pc, idx, results, response,
          ran, lastRun>>
\* the variables of the EnvironmentDump object
env == <<functions, raised, dictionary, dumped>>
aside == <<peer, twin, env>>
vars == <<core, aside>>

\* ------------------------------------------------------------ mappings
EmptyMap == [k \in {} |-> None]
Put(m, k, v) == [x \in (DOMAIN m) \cup {k} |-> IF x = k THEN v ELSE m[x]]
Drop(m, k) == [x \in (DOMAIN m) \ {k} |-> m[x]]

\* the default of success_headers and failed_headers
DefaultHeaders == [h \in {"Content-Type"} |-> "application/json"]
NoHeaders == [kind |-> "None", value |-> EmptyMap]
Mapping(m) == [kind |-> "mapping", value |-> m]
Function(m) == [kind |-> "function", value |-> m]

\* the header arguments a caller passes for one side: nothing, an empty mapping,
\* a mapping of its own, or a function returning one
HeaderArgs(side) ==
    {NoHeaders,
     Mapping(EmptyMap),
     Mapping([h \in {"X-Probe"} |-> side]),
     Function([h \in {"X-Request"} |-> side])}

\* truth value of a header argument: None and the empty mapping are false
Truthy(h) == h.kind = "function" \/ (h.kind = "mapping" /\ DOMAIN h.value # {})

\* lines 60 and 65: success_headers or {'Content-Type': 'application/json'}
HeadersOr(h) == IF Truthy(h) THEN h ELSE Mapping(DefaultHeaders)

\* float(success_ttl or 0), float(failed_ttl or 0)
TTLOf(arg) == IF arg = <<>> THEN 0 ELSE IF arg[1] = 0 THEN 0 ELSE arg[1]

\* ------------------------------------------------------------ checkers
\* What calling a checker does: it returns (passed, output) or raises.
RuntimeError == [type |-> "RuntimeError", msg |-> "connection refused", isClass |-> FALSE]
SystemExit == [type |-> "SystemExit", msg |-> "", isClass |-> FALSE]

Call(checker) ==
    CASE checker.kind = "pass"  -> [raised |-> FALSE, passed |-> TRUE, output |-> "ok", exc |-> RuntimeError]
      [] checker.kind = "fail"  -> [raised |-> FALSE, passed |-> FALSE, output |-> "timeout", exc |-> RuntimeError]
      [] checker.kind = "raise" -> [raised |-> TRUE, passed |-> FALSE, output |-> "", exc |-> RuntimeError]
      [] checker.kind = "exit"  -> [raised |-> TRUE, passed |-> FALSE, output |-> "", exc |-> SystemExit]

ExceptionClasses_none == {}

\* "except Exception": the classes deriving from Exception
ExceptionClasses == {"RuntimeError"}
Caught(exc) == exc.type \in ExceptionClasses

\* sys.exc_info()[0]: the class of the exception being handled
ExcInfo0(exc) == [type |-> exc.type, msg |-> "", isClass |-> TRUE]

\* str(e): the message of an instance, the repr of a class
Str(e) ==
    IF e.isClass
    THEN (IF e.type = "RuntimeError" THEN "<class 'RuntimeError'>" ELSE "<class 'SystemExit'>")
    ELSE e.msg

basic_exception_handler(checker, e) == <<FALSE, Str(e)>>

\* a caller-supplied handler that classifies the error as non-fatal
custom_exception_handler(checker, e) == <<TRUE, "ignored">>

ExceptionHandler(checker, e) ==
    IF cfg.exception_handler = "basic_exception_handler"
    THEN basic_exception_handler(checker, e)
    ELSE custom_exception_handler(checker, e)

\* "%s" % datetime.fromtimestamp(expires)
ExpireAt(expires) == <<"datetime", expires>>

\* run_check, lines 116-142, for a checker whose exception (if any) is caught;
\* t is the value of time.time() at line 130
Expires_swapped(passed, t) == IF passed THEN t + cfg.failed_ttl ELSE t + cfg.success_ttl

Expires(passed, t) == IF passed THEN t + cfg.success_ttl ELSE t + cfg.failed_ttl

Outcome(checker) ==
    LET c == Call(checker) IN
    IF c.raised THEN ExceptionHandler(checker, ExcInfo0(c.exc))
    ELSE <<c.passed, c.output>>

run_check(checker, t) ==
    LET po == Outcome(checker) IN
    [checker |-> checker.name,
     output |-> po[2],
     passed |-> po[1],
     timestamp |-> t,
     expire_at |-> ExpireAt(Expires(po[1], t)),
     expires |-> Expires(po[1], t)]

Usable_present(m, key, t) == key \in DOMAIN m

Usable_inverted(m, key, t) == key \in DOMAIN m /\ m[key].expires <= t

\* line 92: key in self.cache and self.cache[key].get('expires') >= time.time()
Usable(m, key, t) == key \in DOMAIN m /\ m[key].expires >= t

check_reduce_or(passed, result) == passed \/ result.passed

\* check_reduce and reduce(check_reduce, results, True)
check_reduce(passed, result) == passed /\ result.passed

RECURSIVE Reduce(_, _)
Reduce(rs, acc) ==
    IF rs = <<>> THEN acc ELSE Reduce(Tail(rs), check_reduce(acc, Head(rs)))

\* the built-in handlers
json_success_handler(rs) == [status |-> "success", timestamp |-> now, results |-> rs]
json_failed_handler(rs) == [status |-> "failure", timestamp |-> now, results |-> rs]

\* a header set is a static mapping or a zero-argument function; the function
\* is written as the mapping it returns when called
callable(h) == h.kind = "function"
HeadersOf(h) == h.value

\* how often rendering a response on the given side calls each header function
HeaderCalls(verdict) ==
    [success |-> IF verdict /\ callable(cfg.success_headers) THEN 1 ELSE 0,
     failed |-> IF ~verdict /\ callable(cfg.failed_headers) THEN 1 ELSE 0]

\* the body check() returns when no handler is configured
Literal(text) == [status |-> text, timestamp |-> 0, results |-> <<>>]

Respond_ok(rs) ==
    [verdict |-> Reduce(rs, TRUE),
     body |-> IF Reduce(rs, TRUE)
              THEN (IF cfg.success_handler = None THEN Literal("OK") ELSE json_success_handler(rs))
              ELSE (IF cfg.failed_handler = None THEN Literal("OK") ELSE json_failed_handler(rs)),
     handler |-> IF Reduce(rs, TRUE) THEN cfg.success_handler ELSE cfg.failed_handler,
     status |-> IF Reduce(rs, TRUE) THEN cfg.success_status ELSE cfg.failed_status,
     headers |-> HeadersOf(IF Reduce(rs, TRUE) THEN cfg.success_headers ELSE cfg.failed_headers),
     hcalls |-> HeaderCalls(Reduce(rs, TRUE))]

\* lines 99-114
Respond(rs) ==
    IF Reduce(rs, TRUE)
    THEN [verdict |-> TRUE,
          body |-> IF cfg.success_handler = None
                   THEN Literal("OK")
                   ELSE json_success_handler(rs),
          handler |-> cfg.success_handler,
          status |-> cfg.success_status,
          headers |-> HeadersOf(cfg.success_headers),
          hcalls |-> HeaderCalls(TRUE)]
    ELSE [verdict |-> FALSE,
          body |-> IF cfg.failed_handler = None
                   THEN Literal("NOT OK")
                   ELSE json_failed_handler(rs),
          handler |-> cfg.failed_handler,
          status |-> cfg.failed_status,
          headers |-> HeadersOf(cfg.failed_headers),
          hcalls |-> HeaderCalls(FALSE)]

NoResponse == [verdict |-> FALSE, body |-> Literal(None),
               handler |-> None, status |-> 0, headers |-> EmptyMap,
               hcalls |-> [success |-> 0, failed |-> 0]]

\* ------------------------------------------------------- EnvironmentDump
\* the built-in sections and the methods registered for them
BuiltIn == {"os", "python", "config", "process"}
Getter(name) == <<"get", name>>
\* the section names and functions an application passes to add_section
SectionNames == BuiltIn \cup {"uptime"}
Functions == {<<"app", "f">>, <<"app", "g">>}

AddSection_overwrite(fs, name, func) ==
    [raised |-> None, functions |-> Put(fs, name, func)]

\* add_section, lines 167-170: what is raised and what self.functions becomes
AddSection(fs, name, func) ==
    IF name \in DOMAIN fs
    THEN [raised |-> "Exception", functions |-> fs]
    ELSE [raised |-> None, functions |-> Put(fs, name, func)]

\* str.lower(), character by character
LowerCase ==
    [c \in {"A", "D", "E", "H", "I", "K", "N", "O", "P", "S", "T", "W", "Y"} |->
        CASE c = "A" -> "a" [] c = "D" -> "d" [] c = "E" -> "e" [] c = "H" -> "h"
          [] c = "I" -> "i" [] c = "K" -> "k" [] c = "N" -> "n" [] c = "O" -> "o"
          [] c = "P" -> "p" [] c = "S" -> "s" [] c = "T" -> "t" [] c = "W" -> "w"
          [] c = "Y" -> "y"]
lower(key) == [i \in 1..Len(key) |-> IF key[i] \in DOMAIN LowerCase THEN LowerCase[key[i]] ELSE key[i]]

\* "sub in text" for strings
In(sub, text) == \E i \in 0..(Len(text) - Len(sub)) : SubSeq(text, i + 1, i + Len(sub)) = sub

\* line 229: 'key' in key.lower() or 'token' in key.lower() or 'pass' in key.lower()
Sensitive(key) ==
    \/ In(<<"k", "e", "y">>, lower(key))
    \/ In(<<"t", "o", "k", "e", "n">>, lower(key))
    \/ In(<<"p", "a", "s", "s">>, lower(key))

\* line 231
Marker == [type |-> "str", repr |-> "********"]

\* the keys of the mappings handed to safe_dump (a string is the sequence of its
\* characters): API_KEY, Token, passwd, monkey, HOST
DictKeys ==
    {<<"A", "P", "I", "_", "K", "E", "Y">>,
     <<"T", "o", "k", "e", "n">>,
     <<"p", "a", "s", "s", "w", "d">>,
     <<"m", "o", "n", "k", "e", "y">>,
     <<"H", "O", "S", "T">>,
     <<"t", "o", "k">>}

\* the values: a string, an object json cannot encode, a list that contains itself
DictValues ==
    {[type |-> "str", repr |-> "localhost"],
     [type |-> "object", repr |-> "<object>"],
     [type |-> "list", repr |-> "[[...]]"]}

\* json.dumps(value): the exception it raises, or None
JsonDumps(value) ==
    CASE value.type = "str" -> None
      [] value.type = "object" -> "TypeError"
      [] value.type = "list" -> "ValueError"

\* safe_dump, lines 226-238: only TypeError is caught at line 236; any other
\* exception of json.dumps ends the call
safe_dump(d) ==
    IF \E k \in DOMAIN d : ~Sensitive(k) /\ JsonDumps(d[k]) \notin {None, "TypeError"}
    THEN [raised |-> "ValueError", result |-> EmptyMap]
    ELSE [raised |-> None,
          result |-> [k \in {x \in DOMAIN d : Sensitive(x) \/ JsonDumps(d[x]) = None} |->
                         IF Sensitive(k) THEN Marker ELSE d[k]]]

\* a request that is not inside check()
NoRequest == [pc |-> "idle", idx |-> 0, results |-> <<>>, ran |-> {}]
NoTwin == [cache |-> EmptyMap, pc |-> "idle", idx |-> 0, results |-> <<>>, ran |-> {},
           response |-> NoResponse]

\* ---------------------------------------------------------------- Init
\* HealthCheck.__init__, lines 56-74.  The TTLs are varied under the default
\* exception handler, with failures cached no longer than successes (as the
\* defaults 27 and 9 are); the caller-supplied handler is taken with one TTL pair.
Init ==
    /\ \E st \in TTLArgs, ft \in TTLArgs, eh \in ExceptionHandlers, ch \in CacheHandlers,
          sh \in SuccessHandlers, fh \in FailedHandlers,
          sH \in HeaderArgs("success"), fH \in HeaderArgs("failed") :
          /\ TTLOf(ft) <= TTLOf(st)
          /\ eh = "custom" => (st = <<MaxTTL>> /\ ft = <<>>)
          /\ cfg = [success_status |-> 200,
                 success_headers |-> HeadersOr(sH),
                 success_handler |-> sh,
                 success_ttl |-> TTLOf(st),
                 failed_status |-> 500,
                 failed_headers |-> HeadersOr(fH),
                 failed_handler |-> fh,
                 failed_ttl |-> TTLOf(ft),
                 exception_handler |-> eh,
                 cache_handler |-> ch,
                 given |-> [success_headers |-> sH, failed_headers |-> fH]]
    /\ checkers = <<>>
    /\ cache = EmptyMap
    /\ store = EmptyMap
    /\ now = 0
    /\ pc = "idle"
    /\ idx = 0
    /\ results = <<>>
    /\ response = NoResponse
    /\ ran = {}
    /\ lastRun = EmptyMap

\* EnvironmentDump.__init__, lines 146-161: the built-in sections that are
\* included are registered; safe_dump has not been called
EnvironmentDump_init ==
    /\ \E included \in SUBSET BuiltIn : functions = [name \in included |-> Getter(name)]
    /\ raised = None
    /\ dictionary = EmptyMap
    /\ dumped = EmptyMap

\* no second request, no second object, and an EnvironmentDump object built
\* with its defaults (every built-in section included)
InitAside ==
    /\ peer = NoRequest
    /\ twin = NoTwin
    /\ EnvironmentDump_init
    /\ DOMAIN functions = BuiltIn

\* ------------------------------------------------------------- actions
\* time.time() moves on
Tick ==
    /\ now < MaxTime
    /\ pc \in {"idle", "loop", "running"}
    /\ now' = now + 1
    /\ UNCHANGED <<cfg, checkers, cache, store, pc, idx, results, response,
                   ran, lastRun>>
    /\ UNCHANGED aside

\* add_check, lines 83-84
add_check(name, kind) ==
    /\ pc = "idle"
    /\ Len(checkers) < MaxCheckers
    /\ checkers' = Append(checkers, [name |-> name, kind |-> kind])
    /\ UNCHANGED <<cfg, cache, store, now, pc, idx, results, response,
                   ran, lastRun>>
    /\ UNCHANGED aside

Reload_merge ==
    IF cfg.cache_handler # None
    THEN [k \in (DOMAIN cache) \cup (DOMAIN store) |-> IF k \in DOMAIN store THEN store[k] ELSE cache[k]]
    ELSE cache

\* lines 88-89: the mapping check() starts from
Reload == IF cfg.cache_handler # None THEN store ELSE cache

\* check(), lines 86-89: entry
Begin ==
    /\ pc = "idle"
    /\ results' = <<>>
    /\ cache' = Reload
    /\ idx' = 1
    /\ pc' = "loop"
    /\ ran' = {}
    /\ UNCHANGED <<cfg, checkers, store, now, response, lastRun>>
    /\ UNCHANGED aside

Collect_prepend(rs, result) == <<result>> \o rs

\* line 97: results.append(result)
Collect(rs, result) == Append(rs, result)

\* check(), lines 90-93 and 97: the cache is consulted for the next checker
Consult ==
    /\ pc = "loop"
    /\ idx <= Len(checkers)
    /\ LET key == checkers[idx].name IN
       IF Usable(cache, key, now)
       THEN /\ results' = Collect(results, cache[key])
            /\ idx' = idx + 1
            /\ pc' = pc
       ELSE /\ pc' = "running"
            /\ UNCHANGED <<results, idx>>
    /\ UNCHANGED <<cfg, checkers, cache, store, now, response,
                   ran, lastRun>>
    /\ UNCHANGED aside

Persist_copy(m) == store

\* lines 89 and 96: the store at line 96 goes into the mapping the provider
\* returned at line 89; a provider that hands out its own persistent mapping
\* ("shared") thereby holds the new entry, one that hands out a copy does not
Persist(m) == IF cfg.cache_handler = "shared" THEN m ELSE store

Store_only(m, key, result) == Put(EmptyMap, key, result)

Store_setdefault(m, key, result) == IF key \in DOMAIN m THEN m ELSE Put(m, key, result)

\* line 96: self.cache[key] = result
Store(m, key, result) == Put(m, key, result)

\* check(), lines 95-97, with run_check: the checker runs, its result is stored
RunCheck ==
    /\ pc = "running"
    /\ LET checker == checkers[idx]
           key == checker.name
           call == Call(checker)
           result == run_check(checker, now)
       IN
       IF call.raised /\ ~Caught(call.exc)
       THEN /\ pc' = "raised"
            /\ UNCHANGED <<cache, store, results, idx, lastRun>>
       ELSE /\ cache' = Store(cache, key, result)
            /\ store' = Persist(cache')
            /\ results' = Collect(results, result)
            /\ idx' = idx + 1
            /\ pc' = "loop"
            /\ lastRun' = Put(lastRun, key, idx)
    /\ ran' = ran \cup {idx}
    /\ UNCHANGED <<cfg, checkers, now, response>>
    /\ UNCHANGED aside

\* check(), lines 99-114: reduce and render
Finish ==
    /\ pc = "loop"
    /\ idx > Len(checkers)
    /\ response' = Respond(results)
    /\ pc' = "done"
    /\ UNCHANGED <<cfg, checkers, cache, store, now, idx, results,
                   ran, lastRun>>
    /\ UNCHANGED aside

\* the caller has the response (or the exception) in hand
Return ==
    /\ pc \in {"done", "raised"}
    /\ pc' = "idle"
    /\ idx' = 0
    /\ results' = <<>>
    /\ response' = NoResponse
    /\ ran' = {}
    /\ UNCHANGED <<cfg, checkers, cache, store, now, lastRun>>
    /\ UNCHANGED aside

\* another worker process of the same application runs one of the checkers and
\* writes its result to the external store
ForeignRun(i) ==
    /\ cfg.cache_handler = "snapshot"
    /\ pc = "idle"
    /\ i \in 1..Len(checkers)
    /\ ~(Call(checkers[i]).raised /\ ~Caught(Call(checkers[i]).exc))
    /\ store' = Put(store, checkers[i].name, run_check(checkers[i], now))
    /\ UNCHANGED <<cfg, checkers, cache, now, pc, idx, results, response,
                   ran, lastRun>>
    /\ UNCHANGED aside

\* the external store loses an entry
ProviderEvict(name) ==
    /\ cfg.cache_handler = "snapshot"
    /\ pc = "idle"
    /\ name \in DOMAIN store
    /\ store' = Drop(store, name)
    /\ UNCHANGED <<cfg, checkers, cache, now, pc, idx, results, response,
                   ran, lastRun>>
    /\ UNCHANGED aside

\* ------------------------------------------- a second, concurrent request
\* The same steps of check(), taken by another thread on the same object: its
\* position and its local list are its own, self.cache is the one mapping.
PeerBegin ==
    /\ peer.pc = "idle"
    /\ pc # "idle"
    /\ cache' = Reload
    /\ peer' = [peer EXCEPT !.pc = "loop", !.idx = 1, !.results = <<>>, !.ran = {}]
    /\ UNCHANGED <<cfg, checkers, store, now, pc, idx, results, response, ran, lastRun>>
    /\ UNCHANGED <<twin, env>>

PeerConsult ==
    /\ peer.pc = "loop"
    /\ peer.idx <= Len(checkers)
    /\ LET key == checkers[peer.idx].name IN
       IF Usable(cache, key, now)
       THEN peer' = [peer EXCEPT !.results = Collect(peer.results, cache[key]),
                                 !.idx = peer.idx + 1]
       ELSE peer' = [peer EXCEPT !.pc = "running"]
    /\ UNCHANGED <<core, twin, env>>

PeerRunCheck ==
    /\ peer.pc = "running"
    /\ LET checker == checkers[peer.idx]
           key == checker.name
           call == Call(checker)
           result == run_check(checker, now)
       IN
       IF call.raised /\ ~Caught(call.exc)
       THEN /\ peer' = NoRequest
            /\ UNCHANGED <<cache, store, lastRun>>
       ELSE /\ cache' = Store(cache, key, result)
            /\ store' = Persist(cache')
            /\ lastRun' = Put(lastRun, key, peer.idx)
            /\ peer' = [peer EXCEPT !.pc = "loop", !.idx = peer.idx + 1,
                                    !.results = Collect(peer.results, result),
                                    !.ran = peer.ran \cup {peer.idx}]
    /\ UNCHANGED <<cfg, checkers, now, pc, idx, results, response, ran>>
    /\ UNCHANGED <<twin, env>>

\* the second request returns its response; nothing of it stays on the object
PeerFinish ==
    /\ peer.pc = "loop"
    /\ peer.idx > Len(checkers)
    /\ peer' = NoRequest
    /\ UNCHANGED <<core, twin, env>>

\* --------------------------------------------- EnvironmentDump's operations
\* add_section, lines 167-170
add_section(name, func) ==
    /\ functions' = AddSection(functions, name, func).functions
    /\ raised' = AddSection(functions, name, func).raised
    /\ UNCHANGED <<dictionary, dumped>>
    /\ UNCHANGED <<core, peer, twin>>

\* a call of safe_dump (as get_config and get_process make it)
SafeDump(d) ==
    /\ dictionary' = d
    /\ raised' = safe_dump(d).raised
    /\ dumped' = safe_dump(d).result
    /\ UNCHANGED functions
    /\ UNCHANGED <<core, peer, twin>>

\* ------------------------------------- a second object, without a provider
\* The same checkers are registered on a HealthCheck object built with the same
\* arguments except cache_handler=None (line 56: its cache is its own dict), and
\* it is asked the same requests at the same clock readings: it takes each step
\* of check() right after the first object has taken its step.
Rank(p, i) ==
    CASE p = "idle" -> 0
      [] p = "loop" -> 2 * i - 1
      [] p = "running" -> 2 * i
      [] p \in {"done", "raised"} -> 2 * (Len(checkers) + 2)

\* the second object has a step to catch up
Behind ==
    IF twin.pc \in {"done", "raised"}
    THEN pc = "idle"
    ELSE Rank(twin.pc, twin.idx) < Rank(pc, idx)

TwinBegin ==
    /\ Behind
    /\ twin.pc = "idle"
    /\ twin' = [twin EXCEPT !.pc = "loop", !.idx = 1, !.results = <<>>, !.ran = {}]
    /\ UNCHANGED <<core, peer, env>>

TwinConsult ==
    /\ Behind
    /\ twin.pc = "loop"
    /\ twin.idx <= Len(checkers)
    /\ LET key == checkers[twin.idx].name IN
       IF Usable(twin.cache, key, now)
       THEN twin' = [twin EXCEPT !.results = Collect(twin.results, twin.cache[key]),
                                 !.idx = twin.idx + 1]
       ELSE twin' = [twin EXCEPT !.pc = "running"]
    /\ UNCHANGED <<core, peer, env>>

TwinRunCheck ==
    /\ Behind
    /\ twin.pc = "running"
    /\ LET checker == checkers[twin.idx]
           call == Call(checker)
           result == run_check(checker, now)
       IN
       IF call.raised /\ ~Caught(call.exc)
       THEN twin' = [twin EXCEPT !.pc = "raised", !.ran = twin.ran \cup {twin.idx}]
       ELSE twin' = [twin EXCEPT !.cache = Store(twin.cache, checker.name, result),
                                 !.results = Collect(twin.results, result),
                                 !.idx = twin.idx + 1,
                                 !.pc = "loop",
                                 !.ran = twin.ran \cup {twin.idx}]
    /\ UNCHANGED <<core, peer, env>>

TwinFinish ==
    /\ Behind
    /\ twin.pc = "loop"
    /\ twin.idx > Len(checkers)
    /\ twin' = [twin EXCEPT !.pc = "done", !.response = Respond(twin.results)]
    /\ UNCHANGED <<core, peer, env>>

TwinReturn ==
    /\ Behind
    /\ twin.pc \in {"done", "raised"}
    /\ twin' = [twin EXCEPT !.pc = "idle", !.idx = 0, !.results = <<>>, !.ran = {},
                            !.response = NoResponse]
    /\ UNCHANGED <<core, peer, env>>

Next ==
    \/ Tick
    \/ \E name \in Names, kind \in Kinds : add_check(name, kind)
    \/ Begin
    \/ Consult
    \/ RunCheck
    \/ Finish
    \/ Return

\* the steps of a deployment with an external cache provider
NextExt ==
    \/ Next
    \/ \E i \in 1..MaxCheckers : ForeignRun(i)
    \/ \E name \in Names : ProviderEvict(name)

\* checkers that return a verdict
Returning == {"pass", "fail"}

\* two requests at a time on one object whose checkers return
NextConc ==
    \/ Tick
    \/ \E name \in Names, kind \in Returning : add_check(name, kind)
    \/ peer.pc = "idle" /\ Begin
    \/ Consult
    \/ RunCheck
    \/ Finish
    \/ Return
    \/ PeerBegin
    \/ PeerConsult
    \/ PeerRunCheck
    \/ PeerFinish

\* the mappings handed to safe_dump: up to two of the keys, each with a value
Dictionaries ==
    UNION {[ks -> DictValues] : ks \in {x \in SUBSET DictKeys : Cardinality(x) <= MaxKeys}}

\* sections are registered on an EnvironmentDump object
NextEnv == \E name \in SectionNames, func \in Functions : add_section(name, func)

\* safe_dump is applied to one mapping after another
NextDump == \E d \in Dictionaries : SafeDump(d)

\* two objects side by side, served in step
NextTwin ==
    \/ ~Behind /\ Tick
    \/ \E name \in Names, kind \in Kinds : ~Behind /\ add_check(name, kind)
    \/ ~Behind /\ Begin
    \/ ~Behind /\ Consult
    \/ ~Behind /\ RunCheck
    \/ ~Behind /\ Finish
    \/ ~Behind /\ Return
    \/ TwinBegin
    \/ TwinConsult
    \/ TwinRunCheck
    \/ TwinFinish
    \/ TwinReturn

\* the handlers and header sets the constructor defaults to
DefaultRendering ==
    /\ cfg.success_handler = "json_success_handler"
    /\ cfg.failed_handler = "json_failed_handler"
    /\ cfg.given.success_headers = NoHeaders
    /\ cfg.given.failed_headers = NoHeaders

\* the default in-process cache (cache_handler=None)
InitCore ==
    /\ Init
    /\ InitAside
    /\ DefaultRendering
    /\ cfg.cache_handler = None

Spec == InitCore /\ [][Next]_vars

\* an external cache provider is configured
InitExt ==
    /\ Init
    /\ InitAside
    /\ DefaultRendering
    /\ cfg.cache_handler # None
    /\ cfg.exception_handler = "basic_exception_handler"
    /\ cfg.success_ttl = MaxTTL
    /\ cfg.failed_ttl = 0

SpecExt == InitExt /\ [][NextExt]_vars

\* the handlers and header sets are varied under the default in-process cache,
\* with successes cached and failures not; both sides get the same sort of
\* handler and of header argument
InitResp ==
    /\ Init
    /\ InitAside
    /\ cfg.cache_handler = None
    /\ cfg.exception_handler = "basic_exception_handler"
    /\ cfg.success_ttl = MaxTTL
    /\ cfg.failed_ttl = 0
    /\ cfg.success_handler = None <=> cfg.failed_handler = None
    /\ cfg.given.success_headers.kind = cfg.given.failed_headers.kind
    /\ DOMAIN cfg.given.success_headers.value = {} <=> DOMAIN cfg.given.failed_headers.value = {}

SpecResp == InitResp /\ [][Next]_vars

\* two threads serve requests on an object with the default in-process cache;
\* successes and failures are cached for one clock unit
InitConc ==
    /\ Init
    /\ InitAside
    /\ DefaultRendering
    /\ cfg.cache_handler = None
    /\ cfg.exception_handler = "basic_exception_handler"
    /\ cfg.success_ttl = 1
    /\ cfg.failed_ttl = 1

SpecConc == InitConc /\ [][NextConc]_vars

\* a HealthCheck object built with its default rendering and no caching
Plain ==
    /\ Init
    /\ DefaultRendering
    /\ cfg.cache_handler = None
    /\ cfg.exception_handler = "basic_exception_handler"
    /\ cfg.success_ttl = 0
    /\ cfg.failed_ttl = 0
    /\ peer = NoRequest
    /\ twin = NoTwin

\* an EnvironmentDump object built with any choice of the include_* flags
InitEnv ==
    /\ Plain
    /\ EnvironmentDump_init

SpecEnv == InitEnv /\ [][NextEnv]_vars

\* an EnvironmentDump object built with its defaults
InitDump ==
    /\ Plain
    /\ EnvironmentDump_init
    /\ DOMAIN functions = BuiltIn

SpecDump == InitDump /\ [][NextDump]_vars

\* the first object has a provider that hands out one persistent mapping, which
\* is empty at first and which nothing else writes; successes are cached for the
\* longest TTL and failures for any TTL
InitTwin ==
    /\ Init
    /\ InitAside
    /\ DefaultRendering
    /\ cfg.cache_handler = "shared"
    /\ cfg.exception_handler = "basic_exception_handler"
    /\ cfg.success_ttl = MaxTTL

SpecTwin == InitTwin /\ [][NextTwin]_vars

\* ================================================================ claims
Done == pc = "done"
Positions == 1..Len(checkers)
AllPass == \A i \in Positions : checkers[i].kind = "pass"
DistinctNames == \A i, j \in Positions : i # j => checkers[i].name # checkers[j].name
TTLFor(passed) == IF passed THEN cfg.success_ttl ELSE cfg.failed_ttl

\* a step of check() that consults the cache for the checker at position idx
ConsultStep == pc = "loop" /\ idx <= Len(checkers) /\ (idx' = idx + 1 \/ pc' = "running")
\* ... and reuses the cached result without invoking the checker
Reuses == idx' = idx + 1 /\ pc' = "loop" /\ ran' = ran /\ results' = Append(results, cache[checkers[idx].name])
\* ... and goes on to invoke the checker
Invokes == pc' = "running" /\ results' = results

\* C1: when every registered checker returns passed=true (the empty registry
\* included), check() yields verdict true and success_status, and the success
\* handler gets one result per registered checker, in registration order.
C1_AllPassSucceeds ==
    (Done /\ AllPass) =>
        /\ response.verdict
        /\ response.status = cfg.success_status
        /\ response.handler = cfg.success_handler
        /\ response.body.status = "success"
        /\ Len(response.body.results) = Len(checkers)
        /\ \A i \in Positions : response.body.results[i].checker = checkers[i].name

C1_Witness ==
    /\ Done /\ AllPass /\ Len(checkers) = 2
    /\ checkers[1].name # checkers[2].name
    /\ ran = {2}

\* C2: a result list holding at least one passed=false result, run in this call
\* or reused from the cache, gives verdict false and exactly failed_status; the
\* status is always success_status or failed_status.
C2_AnyFailureFails ==
    Done =>
        /\ (\E i \in DOMAIN results : ~results[i].passed) =>
               (~response.verdict /\ response.status = cfg.failed_status)
        /\ response.status \in {cfg.success_status, cfg.failed_status}

C2_Witness ==
    /\ Done /\ Len(results) = 2
    /\ results[1].passed /\ ~results[2].passed
    /\ 1 \in ran /\ 2 \notin ran

\* C3: with the in-process cache and an all-passing registry with distinct names,
\* a checker is invoked on first use, is not invoked by a call that consults it
\* within success_ttl of its last run, and is invoked again by a call that
\* consults it after success_ttl has elapsed since that run.
C3_TTLCaching ==
    [][(ConsultStep /\ AllPass /\ DistinctNames) =>
          LET key == checkers[idx].name IN
          /\ key \notin DOMAIN cache => Invokes
          /\ (key \in DOMAIN cache /\ now < cache[key].timestamp + cfg.success_ttl) => Reuses
          /\ (key \in DOMAIN cache /\ now > cache[key].timestamp + cfg.success_ttl) => Invokes]_vars

\* a second call, made later than the first but within success_ttl of it, has
\* reused every result and invoked nothing
C3_Witness ==
    /\ Done /\ AllPass /\ DistinctNames /\ Len(checkers) = 2
    /\ ran = {}
    /\ \A i \in Positions :
          /\ results[i].timestamp < now
          /\ now < results[i].timestamp + cfg.success_ttl

\* C4: a cached result is reused iff now < expires at the moment the cache is
\* consulted; at now >= expires the checker is run.
C4_StrictFreshness ==
    [][ConsultStep =>
          LET key == checkers[idx].name IN
          IF key \in DOMAIN cache /\ now < cache[key].expires THEN Reuses ELSE Invokes]_vars

\* C5: a TTL of 0 disables caching for its outcome class: a failing checker with
\* failed_ttl = 0, and a passing checker with success_ttl = 0, is invoked by
\* every call, however little time has passed since its last run.
C5_ZeroTTLAlwaysRuns ==
    Done =>
        \A i \in Positions :
            ( /\ DistinctNames
              /\ \/ checkers[i].kind = "fail" /\ cfg.failed_ttl = 0
                 \/ checkers[i].kind = "pass" /\ cfg.success_ttl = 0 )
            => i \in ran

\* C6: an error raised by a checker never leaves check(): the call still returns
\* a response, the checkers after the raising one are processed, and the raising
\* checker contributes exactly one result, at its own position.
C6_ErrorsAreContained ==
    /\ pc = "raised" => Call(checkers[idx]).exc.type # "RuntimeError"
    /\ pc \in {"loop", "running"} => Len(results) = idx - 1
    /\ Done =>
          /\ Len(results) = Len(checkers)
          /\ response.status \in {cfg.success_status, cfg.failed_status}
          /\ \A i \in Positions : results[i].checker = checkers[i].name

C6_Witness ==
    /\ Done /\ Len(checkers) = 2
    /\ checkers[1].kind = "raise"
    /\ ran = {1, 2}

\* C7: the result of a checker that raised carries what the exception handler
\* returns for the raised error; with the default handler that is passed=false
\* and output equal to the error's message.
C7_DefaultHandlerGivesMessage ==
    Done =>
        \A i \in ran :
            (checkers[i].kind = "raise" /\ cfg.exception_handler = "basic_exception_handler")
            => /\ results[i].passed = FALSE
               /\ results[i].output = Call(checkers[i]).exc.msg

\* the results this aggregator holds: cached or collected
Held == {cache[k] : k \in DOMAIN cache} \cup {results[i] : i \in DOMAIN results}

\* C8 as stated: expires = timestamp + the TTL of the outcome, and
\* expires >= timestamp for every configurable TTL.
C8_ExpiresNeverBeforeTimestamp ==
    \A r \in Held :
        /\ r.expires = r.timestamp + TTLFor(r.passed)
        /\ r.expires >= r.timestamp

\* C8 amended: expires = timestamp + the TTL of the outcome, the timestamp being
\* the clock when the check completed; expires >= timestamp holds exactly when
\* that TTL is not negative.
C8_ExpiresIsTimestampPlusTTL ==
    \A r \in Held :
        /\ r.expires = r.timestamp + TTLFor(r.passed)
        /\ r.timestamp <= now
        /\ (r.expires >= r.timestamp) <=> (TTLFor(r.passed) >= 0)

C8_Witness ==
    /\ Done /\ Len(results) = 2
    /\ results[1].passed /\ ~results[2].passed
    /\ cfg.success_ttl > cfg.failed_ttl /\ cfg.failed_ttl >= 0
    /\ ran = {1, 2}
    /\ results[2].expires < results[1].expires

\* C9: with an external cache provider every call starts from the whole mapping
\* the provider returns, the previous in-memory copy being discarded: a result
\* not run in this call is reused only if that mapping holds it unexpired, and an
\* unexpired entry of that mapping suppresses the checker whether or not this
\* aggregator ever ran it.
C9_ProviderIsAuthoritative ==
    [][/\ (pc = "idle" /\ pc' = "loop") => cache' = store
       /\ ConsultStep =>
             LET key == checkers[idx].name
                 written == \E j \in ran : checkers[j].name = key
             IN  ~written =>
                    /\ Reuses => /\ key \in DOMAIN store
                                 /\ cache[key] = store[key]
                                 /\ store[key].expires >= now
                    /\ (key \in DOMAIN store /\ now < store[key].expires) => Reuses]_vars

\* the first checker was suppressed by a provider entry this aggregator never
\* produced, and the second is being run again because the provider's mapping
\* lacks the result this aggregator stored for it earlier, which (a passing
\* result, run less than success_ttl ago) has not expired
C9_Witness ==
    /\ pc = "running" /\ idx = 2
    /\ cfg.cache_handler = "snapshot"
    /\ 1 \notin ran
    /\ checkers[1].name \notin DOMAIN lastRun
    /\ checkers[2].kind = "pass"
    /\ checkers[2].name \in DOMAIN lastRun
    /\ now < cfg.success_ttl
    /\ checkers[2].name \notin DOMAIN cache

SetMax(S) == CHOOSE x \in S : \A y \in S : y <= x

\* C10: two checkers registered under one name share one cache slot: after a call
\* the cache holds one entry for the name, the result of whichever of them ran
\* most recently.
C10_SharedSlot ==
    Done =>
        \A i, j \in Positions :
            (i < j /\ checkers[i].name = checkers[j].name) =>
                LET k == checkers[i].name
                    S == {p \in ran : checkers[p].name = k}
                IN  /\ k \in DOMAIN cache
                    /\ k \in DOMAIN lastRun
                    /\ checkers[lastRun[k]].name = k
                    /\ cache[k] = run_check(checkers[lastRun[k]], cache[k].timestamp)
                    /\ S # {} => (lastRun[k] = SetMax(S) /\ cache[k] = results[SetMax(S)])

C10_Witness ==
    /\ Done /\ Len(checkers) = 2
    /\ checkers[1].name = checkers[2].name
    /\ checkers[1].kind = "pass" /\ checkers[2].kind = "fail"
    /\ ran = {1, 2}
    /\ results[1].passed
    /\ ~cache[checkers[1].name].passed

\* the verdict of the call that has just finished: every result passed
Verdict == \A i \in DOMAIN results : results[i].passed
SelectedHandler == IF Verdict THEN cfg.success_handler ELSE cfg.failed_handler
SelectedStatus == IF Verdict THEN cfg.success_status ELSE cfg.failed_status
SelectedHeaders == IF Verdict THEN cfg.success_headers ELSE cfg.failed_headers

\* C11: when check() returns and the handler of the verdict's side is None, the
\* body is the literal "OK" (verdict true) or "NOT OK" (verdict false); when the
\* handler is present the body is what it returns for the result list in order;
\* either way the status and the headers are those of the verdict's side.
C11_LiteralBodyWithoutHandler ==
    Done =>
        /\ response.verdict = Verdict
        /\ response.status = SelectedStatus
        /\ response.headers = SelectedHeaders.value
        /\ SelectedHandler = None =>
              /\ response.body.status = (IF Verdict THEN "OK" ELSE "NOT OK")
              /\ response.body.results = <<>>
        /\ SelectedHandler = "json_success_handler" =>
              response.body = [status |-> "success", timestamp |-> now, results |-> results]
        /\ SelectedHandler = "json_failed_handler" =>
              response.body = [status |-> "failure", timestamp |-> now, results |-> results]

C11_Witness ==
    /\ Done
    /\ cfg.failed_handler = None
    /\ Len(results) = 2
    /\ results[1].passed
    /\ ~results[2].passed
    /\ response.body.status = "NOT OK"
    /\ response.status = 500

\* the entry under the name is absent, or its expiry lies in the past
Unusable(key) == key \notin DOMAIN cache \/ cache[key].expires < now
PeerConsultStep == peer.pc = "loop" /\ peer.idx <= Len(checkers) /\ peer' # peer
PeerRunStep == peer.pc = "running" /\ peer' # peer
RunStep == pc = "running" /\ pc' # pc

\* C12: with the default in-process cache nothing makes two concurrent requests
\* share one run: each request that consults an absent or expired entry goes on to
\* invoke the checker, wherever the other request stands, and a request that has
\* found the entry unusable runs the checker and stores its own result even when
\* the other request has stored one in between.
C12_NoSingleFlight ==
    [][/\ PeerConsultStep /\ Unusable(checkers[peer.idx].name) =>
             peer'.pc = "running" /\ peer'.results = peer.results
       /\ ConsultStep /\ Unusable(checkers[idx].name) => Invokes
       /\ PeerRunStep =>
             /\ peer.idx \in peer'.ran
             /\ cache'[checkers[peer.idx].name] = run_check(checkers[peer.idx], now)
       /\ RunStep =>
             /\ idx \in ran'
             /\ cache'[checkers[idx].name] = run_check(checkers[idx], now)
      ]_vars

\* both requests have run the checker at one position at the same clock reading:
\* the second consulted the cache before the first had stored its result
C12_Witness ==
    \E i \in Positions :
        /\ i \in ran
        /\ i \in peer.ran
        /\ i <= Len(results)
        /\ i <= Len(peer.results)
        /\ results[i].timestamp = peer.results[i].timestamp
        /\ lastRun[checkers[i].name] = i

\* C13: across the calls of check() on the in-process cache, no entry leaves the
\* cache, and the entry under a name changes only in the step that runs the
\* checker of that name, where it becomes the newly built result which is also
\* appended to the result list; so a step that reuses an entry, and a whole call
\* of such steps, leaves the cache as it was, and an expired entry stays until
\* its checker is run again.
C13_EntriesOnlyReplacedByRuns ==
    [][/\ \A k \in DOMAIN cache : k \in DOMAIN cache'
       /\ \A k \in DOMAIN cache' :
             (k \notin DOMAIN cache \/ cache'[k] # cache[k]) =>
                 /\ pc = "running"
                 /\ checkers[idx].name = k
                 /\ idx \in ran'
                 /\ cache'[k] = run_check(checkers[idx], now)
                 /\ results' = Append(results, cache'[k])
       /\ (ConsultStep /\ Reuses) => cache' = cache
       /\ (pc' = "done" /\ ran' = {}) => cache' = cache
       /\ \A k \in DOMAIN cache :
             (cache[k].expires < now /\ ~(pc = "running" /\ checkers[idx].name = k)) =>
                 cache'[k] = cache[k]
      ]_vars

\* an expired entry is still in the cache while, in the same call, the entry of
\* another name has been replaced by the result of a run at a later time
C13_Witness ==
    /\ pc = "loop"
    /\ idx = 2
    /\ ran = {1}
    /\ cache[checkers[1].name] = results[1]
    /\ results[1].timestamp = now
    /\ \E k \in DOMAIN cache :
          /\ k # checkers[1].name
          /\ cache[k].expires < now
          /\ cache[k].timestamp < cache[k].expires

\* C14: a call add_section(name, func) with a name that is registered (a
\* built-in section that was included, or one added before) raises and leaves
\* the registry as it was; with a name that is not registered it raises nothing,
\* and afterwards the registry maps name to func and is otherwise as before.
C14_AddSectionRejectsTakenName ==
    [][\A name \in SectionNames, func \in Functions :
          add_section(name, func) =>
              IF name \in DOMAIN functions
              THEN raised' = "Exception" /\ functions' = functions
              ELSE /\ raised' = None
                   /\ DOMAIN functions' = DOMAIN functions \cup {name}
                   /\ functions'[name] = func
                   /\ \A n \in DOMAIN functions : functions'[n] = functions[n]
      ]_vars

\* an included built-in section was refused (it still maps to its getter) after a
\* section of the application had been added
C14_Witness ==
    /\ raised = "Exception"
    /\ "uptime" \in DOMAIN functions
    /\ functions["uptime"] \in Functions
    /\ "os" \in DOMAIN functions
    /\ functions["os"] = Getter("os")
    /\ "config" \notin DOMAIN functions

\* C15: after safe_dump(dictionary) the call has returned a mapping in which
\* every key of the input whose lowercase form contains "key", "token" or "pass"
\* maps to the marker, every other key with a serializable value maps to that
\* value, every other key with a value that is not serializable is absent, and
\* no key outside the input appears.
C15_SafeDumpRedactsAndDrops ==
    /\ raised = None
    /\ DOMAIN dumped \subseteq DOMAIN dictionary
    /\ \A k \in DOMAIN dictionary :
          IF In(<<"k", "e", "y">>, lower(k)) \/ In(<<"t", "o", "k", "e", "n">>, lower(k))
                \/ In(<<"p", "a", "s", "s">>, lower(k))
          THEN k \in DOMAIN dumped /\ dumped[k] = Marker
          ELSE IF dictionary[k].type = "str"
               THEN k \in DOMAIN dumped /\ dumped[k] = dictionary[k]
               ELSE k \notin DOMAIN dumped

\* the header argument the constructor was given for the side of the verdict
GivenHeaders == IF Verdict THEN cfg.given.success_headers ELSE cfg.given.failed_headers

\* C16: when check() returns, the headers are those of the verdict's side: a
\* header set given as a function has been called once in this call if it is on
\* the verdict's side and not at all otherwise, and what it returned is
\* returned; a header set given as a static mapping is returned as it was given
\* (the default mapping when none was given).
C16_HeadersOfSelectedSide ==
    Done =>
        /\ response.hcalls.success =
              (IF Verdict /\ cfg.given.success_headers.kind = "function" THEN 1 ELSE 0)
        /\ response.hcalls.failed =
              (IF ~Verdict /\ cfg.given.failed_headers.kind = "function" THEN 1 ELSE 0)
        /\ GivenHeaders.kind = "function" => response.headers = GivenHeaders.value
        /\ GivenHeaders.kind = "mapping" => response.headers = GivenHeaders.value
        /\ GivenHeaders.kind = "None" => response.headers = DefaultHeaders

\* C17: two checkers registered under one name.  Within one call of check(),
\* when the cache is consulted for the later one while the result the earlier one
\* produced in this call is in the cache, was given a TTL above 0 and has not
\* expired, the later checker is not invoked and the earlier one's result is
\* appended again; when check() then returns for a registry of just these two,
\* both positions hold the first checker's result and the verdict and status
\* are those of the first checker's outcome, whatever the second would report.
C17_DuplicateNameReusesFirstResult ==
    [][/\ \A i \in Positions :
             (/\ ConsultStep
              /\ i < idx
              /\ checkers[i].name = checkers[idx].name
              /\ i \in ran
              /\ cache[checkers[idx].name] = results[i]
              /\ TTLFor(results[i].passed) > 0
              /\ now < results[i].expires)
             => (Reuses /\ results'[idx] = results[i])
       /\ (/\ Done
           /\ Len(checkers) = 2
           /\ checkers[1].name = checkers[2].name
           /\ ran = {1})
          => /\ results[2] = results[1]
             /\ response.verdict = results[1].passed
             /\ response.status = (IF results[1].passed THEN 200 ELSE 500)
      ]_vars

\* a passing checker and a failing one under the same name: only the first ran,
\* within its TTL, and the call reported success
C17_Witness ==
    /\ Done
    /\ Len(checkers) = 2
    /\ checkers[1].name = checkers[2].name
    /\ checkers[1].kind = "pass"
    /\ checkers[2].kind = "fail"
    /\ ran = {1}
    /\ cfg.success_ttl > 0
    /\ now < results[1].expires
    /\ results[2] = results[1]
    /\ response.verdict
    /\ response.status = 200

\* C18: one request at a time and checkers registered under distinct names.
\* Whenever check() returns, the cache has an entry under the name of every
\* registered checker, each entry of the cache names the key it is stored under
\* as its checker, and the result at each position of the returned list is the
\* cache entry under that checker's name.
C18_CacheMatchesReturnedResults ==
    (Done /\ DistinctNames) =>
        /\ Len(results) = Len(checkers)
        /\ \A i \in Positions :
              /\ checkers[i].name \in DOMAIN cache
              /\ results[i] = cache[checkers[i].name]
        /\ \A k \in DOMAIN cache : cache[k].checker = k

\* a call that ran the first of two checkers anew (its failure had expired) and
\* reused the older result of the second
C18_Witness ==
    /\ Done
    /\ DistinctNames
    /\ Len(checkers) = 2
    /\ ran = {1}
    /\ ~results[1].passed
    /\ results[2].passed
    /\ results[2].timestamp < results[1].timestamp
    /\ cache[checkers[1].name] = results[1]
    /\ cache[checkers[2].name] = results[2]

\* C19: an object whose cache provider returns one persistent mapping and an
\* object with the default in-process cache, given the same checkers, the same
\* requests and the same clock: whenever both have taken the same number of
\* steps they stand at the same place in check(), have invoked the checkers at
\* the same positions of this call, hold the same result list and have returned
\* the same response (body, verdict, status, headers).
C19_SharedProviderActsLikeDefaultCache ==
    ~Behind =>
        /\ twin.pc = pc
        /\ twin.idx = idx
        /\ twin.ran = ran
        /\ twin.results = results
        /\ twin.response = response

\* both objects have returned from a call in which one checker was run anew
\* and the result of the other, cached by an earlier call, was reused
C19_Witness ==
    /\ ~Behind
    /\ Done
    /\ twin.pc = "done"
    /\ Len(checkers) = 2
    /\ DistinctNames
    /\ ran = {2}
    /\ twin.ran = {2}
    /\ results[1].timestamp < results[2].timestamp
    /\ twin.response = response
    /\ response.status = 500

====
